---- MODULE Spec2Model ----
(***************************************************************************)
(* Gold IRA transcript analysis server (funkytownk/MCP_Analysis).          *)
(*                                                                         *)
(* These parts of the program are modelled:                                *)
(*   - AnalysisOrchestrator (src/src/utils/analysisOrchestrator.ts): the   *)
(*     six-step pipeline, one asynchronous executeAnalysis call per run;   *)
(*   - SessionManager (src/src/middleware/validation.ts, lines 347-417):   *)
(*     the session registry and the clock it reads;                        *)
(*   - the two call-tool handlers: AnalyzeGoldIRATranscriptTool.execute    *)
(*     (src/src/tools/analyzeGoldIRATranscript.ts) and the                 *)
(*     CallToolRequestSchema handler of src/src/index.ts;                  *)
(*   - ValidationMiddleware and InputSanitizer (validation.ts), called on  *)
(*     their own;                                                          *)
(*   - the POST /mcp handlers of minimal-server.ts, mcp-http-server.ts,    *)
(*     debug-server.ts and src/unnamed/part_003;                           *)
(*   - generateSummary and determineOverallRisk of the orchestrator,       *)
(*     called on their own.                                                *)
(*                                                                         *)
(* Specifications:                                                         *)
(*   Spec          the pipelines: NumRuns concurrent runs, each either an   *)
(*                 executeAnalysis call or a call-tool request to index.ts *)
(*   SpecSession   the session registry called directly, with the clock    *)
(*   SpecCallTool  call-tool requests to the two handlers                  *)
(*   SpecTool      call-tool requests to the tool, next to other callers   *)
(*                 of the registry                                         *)
(*   SpecValidate  validateTranscriptRequest, then validateGoldIRAInput    *)
(*   SpecSanitize  sanitizeTranscriptText, applied once and twice          *)
(*   SpecMcp       one request to each POST /mcp handler                   *)
(*   SpecSummary   generateSummary on sampled stage results                *)
(*   SpecRisk      determineOverallRisk on sampled objection inventories   *)
(*   SpecReuse     executeAnalysis runs, a settled run's context being     *)
(*                 passed to executeAnalysis again                         *)
(*   SpecTwoSessions  validateSession and incrementAnalysisCount on a      *)
(*                 registry of two sessions, with the clock                *)
(***************************************************************************)
EXTENDS Integers, Sequences, FiniteSets, TLC

\* ------------------------------------------------------------------------
\* Bounds of the model
\* ------------------------------------------------------------------------
NumRuns == 1

Runs == 1..NumRuns

\* how many session identifiers generateSecureId hands out in a behaviour
MaxSessions == 1

SessionIds == 1..MaxSessions

\* how many times the clock advances in a behaviour
MaxTicks == 2

\* ------------------------------------------------------------------------
\* Values
\* ------------------------------------------------------------------------
\* JavaScript's undefined (an unset optional field, a missing map entry)
Undefined == [undefined |-> TRUE]

\* analysisOrchestrator.ts:15-22
executionOrder_swapped ==
  << [order |-> 1, promptId |-> "conversation",  fileName |-> "Prompt.2"],
     [order |-> 2, promptId |-> "psychology",    fileName |-> "Prompt.3"],
     [order |-> 3, promptId |-> "dealRisk",      fileName |-> "Prompt.5"],
     [order |-> 4, promptId |-> "objections",    fileName |-> "Prompt.4"],
     [order |-> 5, promptId |-> "actionPlan",    fileName |-> "Prompt.6"],
     [order |-> 6, promptId |-> "qualification", fileName |-> "Prompt.1"] >>

executionOrder ==
  << [order |-> 1, promptId |-> "conversation",  fileName |-> "Prompt.2"],
     [order |-> 2, promptId |-> "psychology",    fileName |-> "Prompt.3"],
     [order |-> 3, promptId |-> "objections",    fileName |-> "Prompt.4"],
     [order |-> 4, promptId |-> "dealRisk",      fileName |-> "Prompt.5"],
     [order |-> 5, promptId |-> "actionPlan",    fileName |-> "Prompt.6"],
     [order |-> 6, promptId |-> "qualification", fileName |-> "Prompt.1"] >>

\* the optional result fields of AnalysisContext, goldira.ts:37-46
ContextFields ==
  {"conversationInsights", "psychologyProfile", "objectionAnalysis",
   "riskAssessment", "actionPlan", "finalQualification"}

\* the keys of the analyses map, analysisOrchestrator.ts:38,47
PromptIds ==
  {"conversation", "psychology", "objections", "dealRisk", "actionPlan",
   "qualification"}

\* Metadata of a context, as far as the orchestrator reads it: which of the
\* fields it dereferences are present at run time, and goldIRAInterest.
MetadataSamples ==
  { [present |-> {"duration", "familyMembers", "accountTypes"},
     goldIRAInterest |-> "ready-to-act"],
    [present |-> {"duration", "familyMembers", "accountTypes"},
     goldIRAInterest |-> "considering"],
    [present |-> {"familyMembers", "accountTypes"},
     goldIRAInterest |-> "considering"],
    [present |-> {"duration", "accountTypes"},
     goldIRAInterest |-> "ready-to-act"] }

\* Math.floor(Math.random() * 30) + 70, sampled at both ends of its range
QualitySamples == {70, 99}

\* Math.floor(Math.random() * 30) + 65, sampled at both ends of its range
OpportunitySamples == {65, 94}

\* the context the caller builds for a run: transcript and metadata only
\* (analyzeGoldIRATranscript.ts:77-80); the transcript text is not modelled
NewContext(md) ==
  [metadata |-> md,
   conversationInsights |-> Undefined, psychologyProfile |-> Undefined,
   objectionAnalysis |-> Undefined, riskAssessment |-> Undefined,
   actionPlan |-> Undefined, finalQualification |-> Undefined]

NoAnalyses == [p \in PromptIds |-> Undefined]

\* the context fields that hold a result
Defined(context) == {f \in ContextFields : context[f] # Undefined}


\* ------------------------------------------------------------------------
\* State
\* ------------------------------------------------------------------------
VARIABLES
  pc,        \* per run: "idle", "awaiting" (suspended at the await of line 46),
             \*          "done" (result returned), "failed" (promise rejected)
  step,      \* per run: index into executionOrder of the step of the loop
  context,   \* per run: the AnalysisContext object passed to executeAnalysis
  analyses,  \* per run: the local analyses map (line 38)
  pending,   \* per run: the settled promise of executePromptStep being awaited
  invoked,   \* per run: history of the executePromptStep calls made, in order
  summary,   \* per run: the value generateSummary returned, if it was called
  result,    \* per run: the result object the pipeline returned
  thrown,    \* per run: the Error the run's entry point threw to its caller
  kind,      \* per run: which entry point serves it: "orchestrator"
             \*          (executeAnalysis), "index" (the call-tool handler of
             \*          index.ts), "tool" (AnalyzeGoldIRATranscriptTool.execute)
  request,   \* per run: the call-tool request
  response   \* per run: the call-tool response returned to the transport

pipelineVars ==
  << pc, step, context, analyses, pending, invoked, summary, result, thrown,
     kind, request, response >>

VARIABLES
  sessions,  \* SessionManager.sessions: session id -> session record
  issued,    \* how many identifiers generateSecureId has returned
  now,       \* the clock, in milliseconds (new Date().getTime())
  ticks,     \* how many times the clock has advanced
  calls      \* the SessionManager calls of the latest step, in order, each
             \* with the registry before and after it and the value returned

sessionVars == << sessions, issued, now, ticks, calls >>

VARIABLES
  fnInput,   \* the argument a function is called with on its own
  fnOutput,  \* what that call returned or threw
  fnName     \* the function that was called, "none" before the call

pureVars == << fnInput, fnOutput, fnName >>

\* ------------------------------------------------------------------------
\* PromptProcessor (src/unnamed/part_007)
\* ------------------------------------------------------------------------
Thrown(name, message) == [name |-> name, message |-> message]

\* `${error}`: the string conversion of an Error, "<name>: <message>"
ErrorToString(e) == << e.name, ": " >> \o e.message

\* loadPromptTemplate: the file's text, or an Error naming the file
LoadFailure(fileName) ==
  Thrown("Error",
         << "Failed to load prompt ", fileName, ": " >>
           \o ErrorToString(Thrown("Error", << "ENOENT" >>)))

\* reading a property of undefined
TypeError(prop) ==
  Thrown("TypeError",
         << "Cannot read properties of undefined (reading '", prop, "')" >>)

\* The process<X>Prompt method for promptId: Undefined when it returns the
\* prompt text, else the Error it throws. loads: whether readFileSync
\* succeeds on the template file.
processPrompt(promptId, fileName, ctx, loads) ==
  IF ~loads THEN LoadFailure(fileName)
  ELSE IF promptId = "conversation" /\ "duration" \notin ctx.metadata.present
    THEN TypeError("toString")
  ELSE IF promptId = "qualification"
          /\ "familyMembers" \notin ctx.metadata.present
    THEN TypeError("split")
  ELSE IF promptId = "qualification"
          /\ "accountTypes" \notin ctx.metadata.present
    THEN TypeError("some")
  ELSE Undefined

\* ------------------------------------------------------------------------
\* AnalysisOrchestrator (src/src/utils/analysisOrchestrator.ts)
\* ------------------------------------------------------------------------
\* the values Math.random() can contribute to the mock result of promptId
RandomSamples(promptId) ==
  IF promptId = "conversation" THEN QualitySamples
  ELSE IF promptId = "qualification" THEN OpportunitySamples
  ELSE {0}

mockAnalysisResponse(promptId, ctx, rnd) ==
  CASE promptId = "conversation" ->
         [conversationScorecard |-> [overallQuality |-> rnd],
          keyMoments |-> 1, missedOpportunities |-> 1]
    [] promptId = "psychology" ->
         [personalityType |-> [primary |-> "analytical", confidence |-> 85]]
    [] promptId = "objections" ->
         [objectionInventory |-> << [severity |-> 60] >>]
    [] promptId = "dealRisk" ->
         [dealHealth |-> [overallScore |-> 75, riskLevel |-> "medium"]]
    [] promptId = "actionPlan" ->
         [immediateActions |-> << [priority |-> "high"] >>]
    [] promptId = "qualification" ->
         [qualificationSummary |-> [opportunityScore |-> rnd,
                                    confidence |-> 78]]

\* a settled promise: fulfilled with a value or rejected with an error
Fulfilled(v) == [kind |-> "fulfilled", value |-> v, error |-> Undefined]

Rejected(e) == [kind |-> "rejected", value |-> Undefined, error |-> e]

NoPromise == [kind |-> "none", value |-> Undefined, error |-> Undefined]

\* executePromptStep: an error of the prompt processor is logged and rethrown
\* unchanged (lines 117-120); otherwise the mock analysis is returned
executePromptStep(s, ctx, loads, rnd) ==
  LET e == processPrompt(s.promptId, s.fileName, ctx, loads)
  IN  IF e # Undefined THEN Rejected(e)
      ELSE Fulfilled(mockAnalysisResponse(s.promptId, ctx, rnd))

\* await on a rejected promise throws into the try block of executeAnalysis
IsRejected_never(p) == FALSE

IsRejected(p) == p.kind = "rejected"

updateContext_skipsPsychology(ctx, promptId, analysis) ==
  CASE promptId = "conversation" ->
         [ctx EXCEPT !.conversationInsights = analysis]
    [] promptId = "psychology" -> ctx
    [] promptId = "objections" ->
         [ctx EXCEPT !.objectionAnalysis = analysis]
    [] promptId = "dealRisk" -> [ctx EXCEPT !.riskAssessment = analysis]
    [] promptId = "actionPlan" -> [ctx EXCEPT !.actionPlan = analysis]
    [] promptId = "qualification" ->
         [ctx EXCEPT !.finalQualification = analysis]
    [] OTHER -> ctx

updateContext(ctx, promptId, analysis) ==
  CASE promptId = "conversation" ->
         [ctx EXCEPT !.conversationInsights = analysis]
    [] promptId = "psychology" -> [ctx EXCEPT !.psychologyProfile = analysis]
    [] promptId = "objections" ->
         [ctx EXCEPT !.objectionAnalysis = analysis]
    [] promptId = "dealRisk" -> [ctx EXCEPT !.riskAssessment = analysis]
    [] promptId = "actionPlan" -> [ctx EXCEPT !.actionPlan = analysis]
    [] promptId = "qualification" ->
         [ctx EXCEPT !.finalQualification = analysis]
    [] OTHER -> ctx

\* analyses.dealRisk?.dealHealth?.riskLevel
DealRiskLevel(an) ==
  IF an["dealRisk"] = Undefined THEN "undefined"
  ELSE an["dealRisk"].dealHealth.riskLevel

determineOverallRisk(an) ==
  LET dealRiskLevel ==
        IF DealRiskLevel(an) = "undefined" THEN "medium"
        ELSE DealRiskLevel(an)
      inv == IF an["objections"] = Undefined THEN << >>
             ELSE an["objections"].objectionInventory
      objectionSeverity ==
        IF \E i \in 1..Len(inv) : inv[i].severity > 80 THEN "high"
        ELSE "medium"
  IN  IF dealRiskLevel = "critical" \/ objectionSeverity = "high" THEN "high"
      ELSE IF dealRiskLevel = "high" THEN "medium"
      ELSE "low"

\* rounding that drops the fraction
RoundTenths_truncates(n) == n \div 10

\* Math.round of a tenth-valued number: halves round up
RoundTenths(n) == (n + 5) \div 10

\* the scores q, c in 0..100 for which, at riskScore 20, the double
\* q * 0.3 + c * 0.3 + 20 * 0.4 is 27.499999999999996 or 30.499999999999996
\* where the exact sum is 27.5 or 30.5
ShortOfHalf ==
  { << 3, 62 >>, << 3, 72 >>, << 8, 57 >>, << 8, 67 >>, << 13, 62 >>,
    << 18, 57 >>, << 57, 8 >>, << 57, 18 >>, << 62, 3 >>, << 62, 13 >>,
    << 67, 8 >>, << 72, 3 >> }

\* Math.round(conversationScore * 0.3 + psychologyConfidence * 0.3 +
\* riskScore * 0.4) in double arithmetic, lines 161-163
WeightedScore(q, c, riskScore) ==
  IF riskScore = 20 /\ << q, c >> \in ShortOfHalf
    THEN RoundTenths(q * 3 + c * 3 + riskScore * 4) - 1
  ELSE RoundTenths(q * 3 + c * 3 + riskScore * 4)

\* the readiness ladder without the test of the stated interest
InvestmentReadiness_ignoresInterest(score, interest) ==
  IF score >= 80 THEN "high"
  ELSE IF score >= 60 THEN "medium"
  ELSE IF score >= 40 THEN "low"
  ELSE "not-ready"

\* the if/else ladder of lines 165-175
InvestmentReadiness(score, interest) ==
  IF score >= 80 /\ interest = "ready-to-act" THEN "high"
  ELSE IF score >= 60 THEN "medium"
  ELSE IF score >= 40 THEN "low"
  ELSE "not-ready"

generateSummary(an, ctx) ==
  LET conversationScore ==
        IF an["conversation"] = Undefined THEN 0
        ELSE an["conversation"].conversationScorecard.overallQuality
      psychologyConfidence ==
        IF an["psychology"] = Undefined THEN 0
        ELSE an["psychology"].personalityType.confidence
      riskScore ==
        CASE DealRiskLevel(an) = "low" -> 80
          [] DealRiskLevel(an) = "medium" -> 60
          [] DealRiskLevel(an) = "high" -> 40
          [] OTHER -> 20
      overallQualificationScore ==
        WeightedScore(conversationScore, psychologyConfidence, riskScore)
      investmentReadiness ==
        InvestmentReadiness(overallQualificationScore,
                            ctx.metadata.goldIRAInterest)
  IN  [overallQualificationScore |-> overallQualificationScore,
       investmentReadiness |-> investmentReadiness,
       riskLevel |-> determineOverallRisk(an)]

\* executionOrder.map(step => step.promptId), line 65
PromptIdsOf(order) == [i \in DOMAIN order |-> order[i].promptId]

\* `Gold IRA analysis failed: ${error}`, line 75
WrapError(e) ==
  Thrown("Error", << "Gold IRA analysis failed: " >> \o ErrorToString(e))

\* one executePromptStep call of run r, on the context as it is at the call
Invocation(s, ctx, p) ==
  [promptId |-> s.promptId, received |-> Defined(ctx),
   threw |-> p.kind = "rejected"]

\* slot r is free and every slot before it is taken: the runs and requests
\* of a behaviour are numbered in the order in which they begin
Begins(r) == pc[r] = "idle" /\ \A q \in 1..(r - 1) : pc[q] # "idle"

\* executeAnalysis is called on a new context and runs to its first await:
\* the first step's executePromptStep has run (lines 33-46)
StartRun(r) ==
  /\ Begins(r)
  /\ \E md \in MetadataSamples, loads \in BOOLEAN :
       \E rnd \in RandomSamples(executionOrder[1].promptId) :
         LET ctx == NewContext(md)
             p == executePromptStep(executionOrder[1], ctx, loads, rnd)
         IN  /\ context' = [context EXCEPT ![r] = ctx]
             /\ analyses' = [analyses EXCEPT ![r] = NoAnalyses]
             /\ step' = [step EXCEPT ![r] = 1]
             /\ pending' = [pending EXCEPT ![r] = p]
             /\ invoked' = [invoked EXCEPT
                              ![r] = << Invocation(executionOrder[1], ctx, p) >>]
             /\ pc' = [pc EXCEPT ![r] = "awaiting"]
             /\ kind' = [kind EXCEPT ![r] = "orchestrator"]
  /\ UNCHANGED << summary, result, thrown, request, response >>
  /\ UNCHANGED sessionVars
  /\ UNCHANGED pureVars

\* the catch block with a rollback: the results of the run are cleared
StepFailed_clearsContext(r) ==
  /\ pc[r] = "awaiting"
  /\ IsRejected(pending[r])
  /\ thrown' = [thrown EXCEPT ![r] = WrapError(pending[r].error)]
  /\ pending' = [pending EXCEPT ![r] = NoPromise]
  /\ pc' = [pc EXCEPT ![r] = "failed"]
  /\ context' = [context EXCEPT ![r] = NewContext(context[r].metadata)]
  /\ UNCHANGED << step, analyses, invoked, summary, result >>
  /\ UNCHANGED << kind, request, response >>
  /\ UNCHANGED sessionVars
  /\ UNCHANGED pureVars

\* the awaited step rejected: catch, log, throw the wrapping Error (73-76)
StepFailed(r) ==
  /\ pc[r] = "awaiting"
  /\ IsRejected(pending[r])
  /\ thrown' = [thrown EXCEPT ![r] = WrapError(pending[r].error)]
  /\ pending' = [pending EXCEPT ![r] = NoPromise]
  /\ pc' = [pc EXCEPT ![r] = "failed"]
  /\ UNCHANGED << step, context, analyses, invoked, summary, result >>
  /\ UNCHANGED << kind, request, response >>
  /\ UNCHANGED sessionVars
  /\ UNCHANGED pureVars

\* the awaited step fulfilled and is not the last: its analysis is stored
\* and merged into the context (47-50), and the next iteration runs to its
\* await (42-46)
NextStep(r) ==
  /\ pc[r] = "awaiting"
  /\ ~IsRejected(pending[r])
  /\ step[r] < Len(executionOrder)
  /\ LET cur == executionOrder[step[r]]
         nxt == executionOrder[step[r] + 1]
         ctx == updateContext(context[r], cur.promptId, pending[r].value)
     IN  \E loads \in BOOLEAN, rnd \in RandomSamples(nxt.promptId) :
           LET p == executePromptStep(nxt, ctx, loads, rnd)
           IN  /\ analyses' = [analyses EXCEPT
                                 ![r][cur.promptId] = pending[r].value]
               /\ context' = [context EXCEPT ![r] = ctx]
               /\ step' = [step EXCEPT ![r] = step[r] + 1]
               /\ pending' = [pending EXCEPT ![r] = p]
               /\ invoked' = [invoked EXCEPT
                                ![r] = Append(invoked[r],
                                              Invocation(nxt, ctx, p))]
  /\ UNCHANGED << pc, summary, result, thrown, kind, request, response >>
  /\ UNCHANGED sessionVars
  /\ UNCHANGED pureVars

\* the awaited step fulfilled and is the last: merge, leave the loop,
\* generate the summary and return the result (47-71)
Finish(r) ==
  /\ pc[r] = "awaiting"
  /\ ~IsRejected(pending[r])
  /\ step[r] = Len(executionOrder)
  /\ LET cur == executionOrder[step[r]]
         an == [analyses[r] EXCEPT ![cur.promptId] = pending[r].value]
         ctx == updateContext(context[r], cur.promptId, pending[r].value)
         sm == generateSummary(an, ctx)
     IN  /\ analyses' = [analyses EXCEPT ![r] = an]
         /\ context' = [context EXCEPT ![r] = ctx]
         /\ summary' = [summary EXCEPT ![r] = sm]
         /\ result' = [result EXCEPT
                         ![r] = [executionOrder |-> PromptIdsOf(executionOrder),
                                 analyses |-> an,
                                 summary |-> sm]]
  /\ pending' = [pending EXCEPT ![r] = NoPromise]
  /\ pc' = [pc EXCEPT ![r] = "done"]
  /\ UNCHANGED << step, invoked, thrown, kind, request, response >>
  /\ UNCHANGED sessionVars
  /\ UNCHANGED pureVars

PipelineInit ==
  /\ pc = [r \in Runs |-> "idle"]
  /\ step = [r \in Runs |-> 0]
  /\ context = [r \in Runs |-> Undefined]
  /\ analyses = [r \in Runs |-> NoAnalyses]
  /\ pending = [r \in Runs |-> NoPromise]
  /\ invoked = [r \in Runs |-> << >>]
  /\ summary = [r \in Runs |-> Undefined]
  /\ result = [r \in Runs |-> Undefined]
  /\ thrown = [r \in Runs |-> Undefined]
  /\ kind = [r \in Runs |-> "none"]
  /\ request = [r \in Runs |-> Undefined]
  /\ response = [r \in Runs |-> Undefined]

\* ------------------------------------------------------------------------
\* SessionManager (src/src/middleware/validation.ts:347-417)
\* ------------------------------------------------------------------------
SESSION_TIMEOUT == 30 * 60 * 1000

MAX_ANALYSES_PER_SESSION == 10

\* the empty Map
NoSessions == [id \in {} |-> Undefined]

\* Map.get: the session record, or Undefined
GetSession(ss, id) == IF id \in DOMAIN ss THEN ss[id] ELSE Undefined

\* Map.delete
DeleteSession(ss, id) == [k \in DOMAIN ss \ {id} |-> ss[k]]

\* Map.set
SetSession(ss, id, rec) ==
  [k \in DOMAIN ss \cup {id} |-> IF k = id THEN rec ELSE ss[k]]

\* the outcome of a registry method: the registry after it and what it returns
Outcome(ss, ret) == [sessions |-> ss, ret |-> ret]

cleanupExpiredSessions(ss, t) ==
  [k \in {id \in DOMAIN ss : ~(t - ss[id].lastAccess > SESSION_TIMEOUT)}
     |-> ss[k]]

\* createSession, with id the identifier generateSecureId returns
createSession(ss, id, t) ==
  Outcome(cleanupExpiredSessions(
            SetSession(ss, id, [created |-> t, lastAccess |-> t,
                                analysisCount |-> 0]), t),
          id)

\* validateSession pruning every expired session before it looks up its own
validateSession_prunesOthers(ss, id, t) ==
  LET pruned == cleanupExpiredSessions(ss, t)
      session == GetSession(pruned, id)
  IN  IF session = Undefined THEN Outcome(pruned, FALSE)
      ELSE Outcome([pruned EXCEPT ![id].lastAccess = t], TRUE)

\* the timeout compared with >= instead of >
validateSession_expiresAtTimeout(ss, id, t) ==
  LET session == GetSession(ss, id)
  IN  IF session = Undefined THEN Outcome(ss, FALSE)
      ELSE IF t - session.lastAccess >= SESSION_TIMEOUT
        THEN Outcome(DeleteSession(ss, id), FALSE)
      ELSE Outcome([ss EXCEPT ![id].lastAccess = t], TRUE)

validateSession(ss, id, t) ==
  LET session == GetSession(ss, id)
  IN  IF session = Undefined THEN Outcome(ss, FALSE)
      ELSE IF t - session.lastAccess > SESSION_TIMEOUT
        THEN Outcome(DeleteSession(ss, id), FALSE)
      ELSE Outcome([ss EXCEPT ![id].lastAccess = t], TRUE)

\* one successful call counted twice
incrementAnalysisCount_countsTwice(ss, id) ==
  LET session == GetSession(ss, id)
  IN  IF session = Undefined THEN Outcome(ss, FALSE)
      ELSE IF session.analysisCount >= MAX_ANALYSES_PER_SESSION
        THEN Outcome(ss, FALSE)
      ELSE Outcome([ss EXCEPT ![id].analysisCount = @ + 2], TRUE)

\* the cap compared with > instead of >=
incrementAnalysisCount_offByOne(ss, id) ==
  LET session == GetSession(ss, id)
  IN  IF session = Undefined THEN Outcome(ss, FALSE)
      ELSE IF session.analysisCount > MAX_ANALYSES_PER_SESSION
        THEN Outcome(ss, FALSE)
      ELSE Outcome([ss EXCEPT ![id].analysisCount = @ + 1], TRUE)

incrementAnalysisCount(ss, id) ==
  LET session == GetSession(ss, id)
  IN  IF session = Undefined THEN Outcome(ss, FALSE)
      ELSE IF session.analysisCount >= MAX_ANALYSES_PER_SESSION
        THEN Outcome(ss, FALSE)
      ELSE Outcome([ss EXCEPT ![id].analysisCount = @ + 1], TRUE)

\* the record of one registry call
Call(op, id, t, before, out) ==
  [op |-> op, id |-> id, at |-> t, before |-> before,
   after |-> out.sessions, ret |-> out.ret]

\* some module calls SessionManager.createSession()
CreateSession ==
  /\ issued < MaxSessions
  /\ LET id == issued + 1
         out == createSession(sessions, id, now)
     IN  /\ sessions' = out.sessions
         /\ issued' = id
         /\ calls' = << Call("createSession", id, now, sessions, out) >>
  /\ UNCHANGED << now, ticks >>
  /\ UNCHANGED pipelineVars
  /\ UNCHANGED pureVars

\* some module calls SessionManager.validateSession(id)
ValidateSession(id) ==
  /\ LET out == validateSession(sessions, id, now)
     IN  /\ sessions' = out.sessions
         /\ calls' = << Call("validateSession", id, now, sessions, out) >>
  /\ UNCHANGED << issued, now, ticks >>
  /\ UNCHANGED pipelineVars
  /\ UNCHANGED pureVars

\* some module calls SessionManager.incrementAnalysisCount(id)
IncrementAnalysisCount(id) ==
  /\ LET out == incrementAnalysisCount(sessions, id)
     IN  /\ sessions' = out.sessions
         /\ calls' = << Call("incrementAnalysisCount", id, now, sessions, out) >>
  /\ UNCHANGED << issued, now, ticks >>
  /\ UNCHANGED pipelineVars
  /\ UNCHANGED pureVars

\* time passes: by a millisecond, or by the whole session timeout
Tick ==
  /\ ticks < MaxTicks
  /\ \E d \in {1, SESSION_TIMEOUT} : now' = now + d
  /\ ticks' = ticks + 1
  /\ calls' = << >>
  /\ UNCHANGED << sessions, issued >>
  /\ UNCHANGED pipelineVars
  /\ UNCHANGED pureVars

SessionInit ==
  /\ sessions = NoSessions
  /\ issued = 0
  /\ now = 0
  /\ ticks = 0
  /\ calls = << >>

\* ------------------------------------------------------------------------
\* Call-tool requests
\* ------------------------------------------------------------------------
\* z.string().min(100): validation.ts:7, index.ts:20
MIN_TRANSCRIPT_LENGTH == 100

\* z.string().max(100000): validation.ts:8, index.ts:20
MAX_TRANSCRIPT_LENGTH == 100000

\* A transcript, as far as the handlers read it: the length of the text, the
\* length of what sanitizeTranscriptText leaves of it, and the number of
\* pieces split(/\s+/) cuts the sanitized text into.
TranscriptSamples ==
  { [length |-> 99, cleanedLength |-> 99, words |-> 20],
    [length |-> 900, cleanedLength |-> 900, words |-> 150],
    [length |-> 100, cleanedLength |-> 0, words |-> 1] }

\* The metadata object of a request: the keys it carries and the values of
\* those the handlers read (a value is only meaningful when its key is there).
CallMetadataSamples ==
  { Undefined,
    [keys |-> {"duration", "agentName", "accountTypes", "prospectName",
               "salesRep"},
     duration |-> 60, customerAge |-> 0, retirementStatus |-> "",
     accountTypes |-> {"401k"}],
    [keys |-> {"accountTypes", "customerAge", "retirementStatus"},
     duration |-> 0, customerAge |-> 40, retirementStatus |-> "retired",
     accountTypes |-> {"401k", "403b"}] }

\* metadata?.key is present (and, for the samples above, truthy)
Has(md, key) == md # Undefined /\ key \in md.keys

RetirementStatuses == {"pre-retirement", "recently-retired", "retired"}

AccountTypes == {"ira", "401k", "403b", "roth-ira", "cash", "brokerage"}

\* the keys of the metadata object of TranscriptAnalysisRequestSchema
\* (validation.ts:17-31); z.object strips every other key
SchemaMetadataKeys ==
  {"callDate", "duration", "agentName", "customerAge", "retirementStatus",
   "accountTypes", "investmentExperience", "familyMembers", "urgencyLevel",
   "previousContacts"}

\* a sequence holding x when cond holds, else the empty sequence
If(cond, x) == IF cond THEN << x >> ELSE << >>

\* ------------------------------------------------------------------------
\* ValidationMiddleware (src/src/middleware/validation.ts:5-41, 144-245)
\* ------------------------------------------------------------------------
\* the issues zod reports for data against TranscriptAnalysisRequestSchema
TranscriptAnalysisRequestIssues(data) ==
  LET md == data.metadata
  IN  If(data.transcript.length < MIN_TRANSCRIPT_LENGTH, "transcript: too_small")
      \o If(data.transcript.length > MAX_TRANSCRIPT_LENGTH, "transcript: too_big")
      \o If(Has(md, "duration") /\ (md.duration < 60 \/ md.duration > 7200),
            "metadata.duration")
      \o If(Has(md, "customerAge")
              /\ (md.customerAge < 18 \/ md.customerAge > 120),
            "metadata.customerAge")
      \o If(Has(md, "retirementStatus")
              /\ md.retirementStatus \notin RetirementStatuses,
            "metadata.retirementStatus")
      \o If(Has(md, "accountTypes")
              /\ (md.accountTypes = {} \/ ~(md.accountTypes \subseteq AccountTypes)),
            "metadata.accountTypes")

\* what a handler's step yields: a value, or the Error it throws
Returned(v) == [ok |-> TRUE, value |-> v, error |-> Undefined]

Raised(e) == [ok |-> FALSE, value |-> Undefined, error |-> e]

\* validateTranscriptRequest: the parsed request (transcript sanitized by the
\* schema's transform, unknown metadata keys stripped), or the Error thrown:
\* the sanitizer's own Error when the text is empty after sanitization, the
\* formatted zod issues otherwise
validateTranscriptRequest(data) ==
  LET issues == TranscriptAnalysisRequestIssues(data)
      t == data.transcript
      lengthOk == /\ t.length >= MIN_TRANSCRIPT_LENGTH
                  /\ t.length <= MAX_TRANSCRIPT_LENGTH
  IN  IF lengthOk /\ t.cleanedLength = 0
        THEN Raised(Thrown("Error",
                           << "Transcript cannot be empty after sanitization" >>))
      ELSE IF issues # << >>
        THEN Raised(Thrown("Error", << "Validation failed: " >> \o issues))
      ELSE Returned(
             [transcript |-> [length |-> t.cleanedLength, words |-> t.words],
              metadata |-> IF data.metadata = Undefined THEN Undefined
                           ELSE [data.metadata EXCEPT
                                   !.keys = @ \cap SchemaMetadataKeys],
              sessionId |-> data.sessionId])

\* Math.ceil(a / b) for positive b
CeilDiv(a, b) == (a + b - 1) \div b

Abs(x) == IF x < 0 THEN -x ELSE x

\* the issues validateBusinessRules collects; it throws when there are any
BusinessRuleIssues(req) ==
  LET wordCount == req.transcript.words
      md == req.metadata
      estimatedDuration == CeilDiv(wordCount, 150) * 60
  IN  If(wordCount < 50, "Transcript appears too short for meaningful analysis")
      \o If(wordCount > 10000, "Transcript may be too long for optimal processing")
      \o If(Has(md, "customerAge") /\ Has(md, "retirementStatus")
              /\ md.customerAge < 50 /\ md.retirementStatus = "retired",
            "Customer age and retirement status seem inconsistent")
      \o If(Has(md, "customerAge") /\ Has(md, "retirementStatus")
              /\ md.customerAge > 75 /\ md.retirementStatus = "pre-retirement",
            "Customer age suggests closer to retirement than indicated")
      \o If(Has(md, "accountTypes")
              /\ {"401k", "403b"} \subseteq md.accountTypes,
            "Customer unlikely to have both 401k and 403b accounts")
      \o If(Has(md, "duration")
              /\ 2 * Abs(estimatedDuration - md.duration) > md.duration,
            "Transcript length and call duration seem inconsistent")

validateBusinessRules(req) ==
  IF BusinessRuleIssues(req) # << >>
    THEN Raised(Thrown("Error", << "Business rule validation failed: " >>
                                  \o BusinessRuleIssues(req)))
  ELSE Returned(TRUE)

\* ------------------------------------------------------------------------
\* AnalyzeGoldIRATranscriptTool (src/src/tools/analyzeGoldIRATranscript.ts)
\* ------------------------------------------------------------------------
\* validateGoldIRAInput (182-219), on the validated transcript and metadata
GoldIRAInputErrors(transcript, md) ==
  If(transcript.length < 100, "Transcript must be at least 100 characters long")
  \o If(~Has(md, "prospectName"), "Prospect name is required")
  \o If(~Has(md, "salesRep"), "Sales representative name is required")
  \o If(~Has(md, "duration") \/ md.duration <= 0,
        "Call duration must be greater than 0 minutes")
  \o If(~Has(md, "accountTypes") \/ md.accountTypes = {},
        "At least one account type must be specified")
  \o If(Has(md, "goldIRAInterest") /\ ~Has(md, "accountValues"),
        "Account values must be provided for ready-to-act prospects")
  \o If(Has(md, "retirementStatus") /\ md.retirementStatus = "pre-retirement"
          /\ ~Has(md, "prospectAge"),
        "Age is recommended for pre-retirement prospects")

validateGoldIRAInput(transcript, md) ==
  IF GoldIRAInputErrors(transcript, md) # << >>
    THEN Raised(Thrown("Error", << "Input validation failed: " >>
                                  \o GoldIRAInputErrors(transcript, md)))
  ELSE Returned(TRUE)

\* PromptProvider.getAllPromptsWithContext (part_006:26-108, 214-232): the
\* six prompts are loaded in order; the first load that fails throws
getAllPromptsWithContext(loads) ==
  IF loads
    THEN [invoked |-> [i \in 1..Len(executionOrder) |->
                         [promptId |-> executionOrder[i].promptId,
                          received |-> {}, threw |-> FALSE]],
          outcome |-> Returned(PromptIdsOf(executionOrder))]
  ELSE [invoked |-> << [promptId |-> executionOrder[1].promptId,
                        received |-> {}, threw |-> TRUE] >>,
        outcome |-> Raised(LoadFailure(executionOrder[1].fileName))]

\* the catch block of execute with the clock fields left out
ToolErrorResponse_withoutClock(e, sessionId, startTime, t) ==
  [isError |-> TRUE,
   body |-> [error |-> "Analysis failed", message |-> e.message,
             sessionId |-> sessionId]]

\* the catch block of execute (148-176). startTime: the clock at the entry
\* of execute; t: the clock in the catch block
ToolErrorResponse(e, sessionId, startTime, t) ==
  [isError |-> TRUE,
   body |-> [error |-> "Analysis failed", message |-> e.message,
             sessionId |-> sessionId,
             timestamp |-> t,
             processingTime |-> t - startTime]]

\* execute with the session charged after the legacy check instead of before
execute_chargesLate(ss, id, t, input, loads) ==
  LET c1 == createSession(ss, id, t)
      k1 == << Call("createSession", id, t, ss, c1) >>
      v == validateTranscriptRequest(
             [transcript |-> input.transcript, metadata |-> input.metadata,
              sessionId |-> id])
      b == validateBusinessRules(v.value)
      c2 == incrementAnalysisCount(c1.sessions, id)
      k2 == Append(k1, Call("incrementAnalysisCount", id, t, c1.sessions, c2))
      g == validateGoldIRAInput(v.value.transcript, v.value.metadata)
      a == getAllPromptsWithContext(loads)
      c3 == validateSession(c2.sessions, id, t)
      k3 == Append(k2, Call("validateSession", id, t, c2.sessions, c3))
      Fail(sessionsNow, callsMade, stages, e) ==
        [sessions |-> sessionsNow, calls |-> callsMade, invoked |-> stages,
         response |-> ToolErrorResponse(e, id, t, t)]
  IN  IF ~v.ok THEN Fail(c1.sessions, k1, << >>, v.error)
      ELSE IF ~b.ok THEN Fail(c1.sessions, k1, << >>, b.error)
      ELSE IF ~g.ok THEN Fail(c1.sessions, k1, << >>, g.error)
      ELSE IF ~c2.ret
        THEN Fail(c2.sessions, k2, << >>,
                  Thrown("Error", << "Session analysis limit exceeded" >>))
      ELSE IF ~a.outcome.ok
        THEN Fail(c2.sessions, k2, a.invoked, a.outcome.error)
      ELSE [sessions |-> c3.sessions, calls |-> k3, invoked |-> a.invoked,
            response |->
              [isError |-> FALSE,
               body |-> [sessionId |-> id, prompts |-> a.outcome.value,
                         security |-> [validated |-> TRUE, sanitized |-> TRUE,
                                       sessionValid |-> c3.ret]]]]

\* what one call of execute does: the registry after it, the SessionManager
\* calls it made, the prompts it assembled and the response it returns.
\* id: the identifier generateSecureId returns; input.sessionId is not read.
execute(ss, id, t, input, loads) ==
  LET c1 == createSession(ss, id, t)
      k1 == << Call("createSession", id, t, ss, c1) >>
      v == validateTranscriptRequest(
             [transcript |-> input.transcript, metadata |-> input.metadata,
              sessionId |-> id])
      b == validateBusinessRules(v.value)
      c2 == incrementAnalysisCount(c1.sessions, id)
      k2 == Append(k1, Call("incrementAnalysisCount", id, t, c1.sessions, c2))
      g == validateGoldIRAInput(v.value.transcript, v.value.metadata)
      a == getAllPromptsWithContext(loads)
      c3 == validateSession(c2.sessions, id, t)
      k3 == Append(k2, Call("validateSession", id, t, c2.sessions, c3))
      Fail(sessionsNow, callsMade, stages, e) ==
        [sessions |-> sessionsNow, calls |-> callsMade, invoked |-> stages,
         response |-> ToolErrorResponse(e, id, t, t)]
  IN  IF ~v.ok THEN Fail(c1.sessions, k1, << >>, v.error)
      ELSE IF ~b.ok THEN Fail(c1.sessions, k1, << >>, b.error)
      ELSE IF ~c2.ret
        THEN Fail(c2.sessions, k2, << >>,
                  Thrown("Error", << "Session analysis limit exceeded" >>))
      ELSE IF ~g.ok THEN Fail(c2.sessions, k2, << >>, g.error)
      ELSE IF ~a.outcome.ok
        THEN Fail(c2.sessions, k2, a.invoked, a.outcome.error)
      ELSE [sessions |-> c3.sessions, calls |-> k3, invoked |-> a.invoked,
            response |->
              [isError |-> FALSE,
               body |-> [sessionId |-> id, prompts |-> a.outcome.value,
                         security |-> [validated |-> TRUE, sanitized |-> TRUE,
                                       sessionValid |-> c3.ret]]]]

\* the transport calls execute with a request; the whole handler runs in
\* one step (it awaits nothing). named: the sessionId the request carries,
\* one the registry holds, or 0 when the request has none.
ToolExecute(r) ==
  /\ Begins(r)
  /\ \E transcript \in TranscriptSamples, md \in CallMetadataSamples,
        named \in {0} \cup DOMAIN sessions, loads \in BOOLEAN :
       LET input == [transcript |-> transcript, metadata |-> md,
                     sessionId |-> named]
           out == execute(sessions, issued + 1, now, input, loads)
       IN  /\ request' = [request EXCEPT
                            ![r] = [name |-> "analyze_goldira_transcript",
                                    input |-> input]]
           /\ response' = [response EXCEPT ![r] = out.response]
           /\ invoked' = [invoked EXCEPT ![r] = out.invoked]
           /\ pc' = [pc EXCEPT
                       ![r] = IF out.response.isError THEN "failed" ELSE "done"]
           /\ sessions' = out.sessions
           /\ calls' = out.calls
  /\ kind' = [kind EXCEPT ![r] = "tool"]
  /\ issued' = issued + 1
  /\ UNCHANGED << step, context, analyses, pending, summary, result, thrown >>
  /\ UNCHANGED << now, ticks >>
  /\ UNCHANGED pureVars

\* ------------------------------------------------------------------------
\* The call-tool handler of src/src/index.ts (107-206)
\* ------------------------------------------------------------------------
ToolNames == {"analyze_goldira_transcript", "other_tool"}

\* the issues zod reports for args against AnalyzeTranscriptSchema (19-29)
AnalyzeTranscriptIssues(args) ==
  LET md == args.metadata
  IN  If(args.transcript.length < MIN_TRANSCRIPT_LENGTH, "transcript: too_small")
      \o If(args.transcript.length > MAX_TRANSCRIPT_LENGTH, "transcript: too_big")
      \o If(Has(md, "retirementStatus")
              /\ md.retirementStatus \notin RetirementStatuses,
            "metadata.retirementStatus")
      \o If(Has(md, "accountTypes")
              /\ ~(md.accountTypes \subseteq AccountTypes),
            "metadata.accountTypes")

\* the earlier results each executePrompt<N> call is passed (152-167), named
\* by the context field that holds the same result in the orchestrator
ArgumentsOfStep_withoutActionPlan ==
  << {},
     {},
     {"psychologyProfile"},
     {"conversationInsights", "psychologyProfile"},
     {"conversationInsights", "psychologyProfile", "objectionAnalysis",
      "riskAssessment"},
     {"conversationInsights", "psychologyProfile", "objectionAnalysis",
      "riskAssessment"} >>

ArgumentsOfStep ==
  << {},
     {},
     {"psychologyProfile"},
     {"conversationInsights", "psychologyProfile"},
     {"conversationInsights", "psychologyProfile", "objectionAnalysis",
      "riskAssessment"},
     {"conversationInsights", "psychologyProfile", "objectionAnalysis",
      "riskAssessment", "actionPlan"} >>

\* generateAnalysisInstructions (143-206): the six executePrompt<N> calls in
\* order; failAt: the step whose call throws, 0 when none does. An error is
\* logged and rethrown.
generateAnalysisInstructions(failAt) ==
  LET last == IF failAt = 0 THEN Len(executionOrder) ELSE failAt
      calls6 == [i \in 1..last |->
                   [promptId |-> executionOrder[i].promptId,
                    received |-> ArgumentsOfStep[i],
                    threw |-> i = failAt]]
  IN  [invoked |-> calls6,
       outcome |->
         IF failAt # 0
           THEN Raised(Thrown("TypeError",
                              << "Cannot read properties of undefined" >>))
         ELSE Returned([analysisComplete |-> TRUE,
                        results |-> PromptIdsOf(executionOrder),
                        summary |-> [overallScore |-> 75]])]

\* the handler validates after running the pipeline
CallToolHandler_validatesLate(name, args, failAt) ==
  LET g == generateAnalysisInstructions(failAt)
  IN  IF AnalyzeTranscriptIssues(args) # << >>
        THEN [invoked |-> g.invoked, thrown |-> Undefined, result |-> Undefined,
              response |->
                [isError |-> TRUE,
                 body |-> [error |-> "Analysis failed",
                           message |-> << "ZodError: " >>
                                         \o AnalyzeTranscriptIssues(args)]]]
      ELSE [invoked |-> g.invoked, thrown |-> Undefined,
            result |-> g.outcome.value,
            response |-> [isError |-> FALSE, body |-> g.outcome.value]]

\* the CallToolRequestSchema handler (107-141): what it executes, what it
\* throws and what it returns
CallToolHandler(name, args, failAt) ==
  LET g == generateAnalysisInstructions(failAt)
  IN  IF name # "analyze_goldira_transcript"
        THEN [invoked |-> << >>, result |-> Undefined, response |-> Undefined,
              thrown |-> Thrown("Error", << "Unknown tool: ", name >>)]
      ELSE IF AnalyzeTranscriptIssues(args) # << >>
        THEN [invoked |-> << >>, thrown |-> Undefined, result |-> Undefined,
              response |->
                [isError |-> TRUE,
                 body |-> [error |-> "Analysis failed",
                           message |-> << "ZodError: " >>
                                         \o AnalyzeTranscriptIssues(args)]]]
      ELSE IF ~g.outcome.ok
        THEN [invoked |-> g.invoked, thrown |-> Undefined, result |-> Undefined,
              response |->
                [isError |-> TRUE,
                 body |-> [error |-> "Analysis failed",
                           message |-> g.outcome.error.message]]]
      ELSE [invoked |-> g.invoked, thrown |-> Undefined,
            result |-> g.outcome.value,
            response |-> [isError |-> FALSE, body |-> g.outcome.value]]

\* the SDK server dispatches a tools/call request to the handler; the
\* handler runs in one step (it awaits nothing)
IndexCallTool(r) ==
  /\ Begins(r)
  /\ \E name \in ToolNames, transcript \in TranscriptSamples,
        md \in CallMetadataSamples, failAt \in 0..Len(executionOrder) :
       LET args == [transcript |-> transcript, metadata |-> md]
           out == CallToolHandler(name, args, failAt)
       IN  /\ request' = [request EXCEPT
                            ![r] = [name |-> name, input |-> args]]
           /\ response' = [response EXCEPT ![r] = out.response]
           /\ invoked' = [invoked EXCEPT ![r] = out.invoked]
           /\ result' = [result EXCEPT ![r] = out.result]
           /\ thrown' = [thrown EXCEPT ![r] = out.thrown]
           /\ pc' = [pc EXCEPT
                       ![r] = IF out.result # Undefined THEN "done" ELSE "failed"]
  /\ kind' = [kind EXCEPT ![r] = "index"]
  /\ UNCHANGED << step, context, analyses, pending, summary >>
  /\ UNCHANGED sessionVars
  /\ UNCHANGED pureVars

\* ------------------------------------------------------------------------
\* Specifications
\* ------------------------------------------------------------------------
vars == << pipelineVars, sessionVars, pureVars >>

\* no function is being called on its own
PureInit == fnInput = Undefined /\ fnOutput = Undefined /\ fnName = "none"

Init == PipelineInit /\ SessionInit /\ PureInit

\* the pipelines: executeAnalysis runs and call-tool requests to index.ts
Next ==
  \/ \E r \in Runs : StartRun(r)
  \/ \E r \in Runs : StepFailed(r)
  \/ \E r \in Runs : NextStep(r)
  \/ \E r \in Runs : Finish(r)
  \/ \E r \in Runs : IndexCallTool(r)

Spec == Init /\ [][Next]_vars

\* the session registry, its methods called directly, and the clock
NextSession ==
  \/ CreateSession
  \/ \E id \in SessionIds : ValidateSession(id)
  \/ \E id \in SessionIds : IncrementAnalysisCount(id)
  \/ Tick

SpecSession == Init /\ [][NextSession]_vars

\* call-tool requests to either handler, some naming a session created
\* earlier
NextCallTool ==
  \/ CreateSession
  \/ \E r \in Runs : ToolExecute(r)
  \/ \E r \in Runs : IndexCallTool(r)

SpecCallTool == Init /\ [][NextCallTool]_vars

\* call-tool requests to the tool, next to another module that creates
\* sessions and charges the first session issued
NextTool ==
  \/ \E r \in Runs : ToolExecute(r)
  \/ CreateSession
  \/ IncrementAnalysisCount(1)

SpecTool == Init /\ [][NextTool]_vars

\* ------------------------------------------------------------------------
\* The validators called on their own
\* ------------------------------------------------------------------------
\* the lengths of raw transcripts, around both ends of the schema's range
RawLengths == {99, 100, 120, 100000, 100001, 100050}

\* the lengths the sanitizer can leave of them (it only removes characters)
CleanedLengths == {0, 50, 99, 100, 99990, 100000, 100001}

\* transcripts of those lengths; a sanitized text of n characters splits
\* into at most (n + 1) \div 2 words, an empty one into the one piece ""
LengthSamples ==
  { t \in [length : RawLengths, cleanedLength : CleanedLengths,
           words : {1, 20}] :
      /\ t.cleanedLength <= t.length
      /\ 2 * t.words <= t.cleanedLength + 2 }

\* a caller passes a request to ValidationMiddleware.validateTranscriptRequest
ValidateInit ==
  /\ fnInput \in [transcript : LengthSamples, metadata : CallMetadataSamples,
                  sessionId : {1}]
  /\ fnOutput = Undefined
  /\ fnName = "none"
  /\ PipelineInit /\ SessionInit

ValidateTranscriptRequest ==
  /\ fnName = "none"
  /\ fnName' = "validateTranscriptRequest"
  /\ fnOutput' = validateTranscriptRequest(fnInput)
  /\ UNCHANGED << fnInput, pipelineVars, sessionVars >>

\* the caller goes on to the tool's own check with what the schema returned
\* (analyzeGoldIRATranscript.ts:42-68)
ValidateGoldIRAInput ==
  /\ fnName = "validateTranscriptRequest"
  /\ fnOutput.ok
  /\ fnName' = "validateGoldIRAInput"
  /\ fnInput' = fnOutput.value
  /\ fnOutput' = validateGoldIRAInput(fnOutput.value.transcript,
                                      fnOutput.value.metadata)
  /\ UNCHANGED << pipelineVars, sessionVars >>

NextValidate ==
  \/ ValidateTranscriptRequest
  \/ ValidateGoldIRAInput

SpecValidate == ValidateInit /\ [][NextValidate]_vars

\* ------------------------------------------------------------------------
\* InputSanitizer.sanitizeTranscriptText (validation.ts:284-306)
\* ------------------------------------------------------------------------
\* the longest text, in pieces
MaxTextLen == 4

\* A text is a sequence of pieces, standing for their concatenation. The
\* pieces are cut so that every match of the four regular expressions begins
\* and ends between two pieces: "j" only begins "java", "o" only begins
\* "on", "<" only begins "<", "<script" and "</script", and "script" is
\* followed by ":" unless it follows "<" or "</". No two sequences of pieces
\* spell the same text.
Pieces ==
  {"<", ">", "<script", "</script", "java", "script:", "on", "x", "=", " "}

Texts == UNION {[1..n -> Pieces] : n \in 0..MaxTextLen}

\* the pieces made of word characters only (\w)
WordPieces == {"java", "on", "x"}

\* the pieces that begin with "<"
TagOpeners == {"<", "<script", "</script"}

\* how many characters each piece has
PieceLength ==
  [piece \in Pieces |->
     CASE piece \in {"<", ">", "x", "=", " "} -> 1
       [] piece = "on" -> 2
       [] piece = "java" -> 4
       [] piece \in {"<script", "script:"} -> 7
       [] piece = "</script" -> 8]

RECURSIVE TextLength(_)
\* text.length
TextLength(t) ==
  IF t = << >> THEN 0 ELSE PieceLength[Head(t)] + TextLength(Tail(t))

\* the first index from `from` on at which t holds a piece of S, 0 if none
IndexFrom(t, from, S) ==
  LET found == {k \in from..Len(t) : t[k] \in S}
  IN  IF found = {} THEN 0 ELSE CHOOSE k \in found : \A m \in found : k <= m

\* the rest of t after its first n pieces
Drop(t, n) == SubSeq(t, n + 1, Len(t))

\* the first index after gt at which "</script>" begins, 0 if none
ClosingTagFrom(t, gt) ==
  LET found == {k \in (gt + 1)..(Len(t) - 1) :
                  t[k] = "</script" /\ t[k + 1] = ">"}
  IN  IF found = {} THEN 0 ELSE CHOOSE k \in found : \A m \in found : k <= m

RECURSIVE RemoveScriptBlocks(_)
\* .replace(/<script[^>]*>.*?<\/script>/gi, ''): from "<script" to the first
\* ">" after it, then to the first "</script>" after that
RemoveScriptBlocks(t) ==
  IF t = << >> THEN << >>
  ELSE LET opens == \/ t[1] = "<script"
                    \/ t[1] = "<" /\ Len(t) >= 2 /\ t[2] = "script:"
           gt == IndexFrom(t, 2, {">"})
           close == IF gt = 0 THEN 0 ELSE ClosingTagFrom(t, gt)
       IN  IF opens /\ close # 0
             THEN RemoveScriptBlocks(Drop(t, close + 1))
           ELSE << t[1] >> \o RemoveScriptBlocks(Tail(t))

RECURSIVE StripTags(_)
\* .replace(/<[^>]*>/g, ''): from a "<" to the first ">" after it
StripTags(t) ==
  IF t = << >> THEN << >>
  ELSE LET gt == IndexFrom(t, 2, {">"})
       IN  IF t[1] \in TagOpeners /\ gt # 0
             THEN StripTags(Drop(t, gt))
           ELSE << t[1] >> \o StripTags(Tail(t))

RECURSIVE RemoveJavascript(_)
\* .replace(/javascript:/gi, '')
RemoveJavascript(t) ==
  IF t = << >> THEN << >>
  ELSE IF Len(t) >= 2 /\ t[1] = "java" /\ t[2] = "script:"
    THEN RemoveJavascript(Drop(t, 2))
  ELSE << t[1] >> \o RemoveJavascript(Tail(t))

\* where the match of /on\w+\s*=/ that begins at the head of t ends, 0 if
\* there is none: "on", the longest run of word characters (one at least),
\* any white space, "="
HandlerEnd(t) ==
  LET afterWord == IndexFrom(t, 2, Pieces \ WordPieces)
      afterSpace == IndexFrom(t, 2, Pieces \ (WordPieces \cup {" "}))
  IN  IF /\ t[1] = "on"
         /\ afterWord > 2
         /\ afterSpace # 0
         /\ t[afterSpace] = "="
         /\ \A k \in afterWord..(afterSpace - 1) : t[k] = " "
        THEN afterSpace
      ELSE 0

RECURSIVE RemoveHandlers(_)
\* .replace(/on\w+\s*=/gi, '')
RemoveHandlers(t) ==
  IF t = << >> THEN << >>
  ELSE IF HandlerEnd(t) # 0 THEN RemoveHandlers(Drop(t, HandlerEnd(t)))
  ELSE << t[1] >> \o RemoveHandlers(Tail(t))

RECURSIVE Trim(_)
\* .trim()
Trim(t) ==
  IF t = << >> THEN << >>
  ELSE IF t[1] = " " THEN Trim(Tail(t))
  ELSE IF t[Len(t)] = " " THEN Trim(SubSeq(t, 1, Len(t) - 1))
  ELSE t

\* InputSanitizer.MAX_TEXT_LENGTH (validation.ts:280)
MAX_TEXT_LENGTH == 100000

\* the sanitized text, or the Error thrown
sanitizeTranscriptText(text) ==
  LET cleaned ==
        Trim(RemoveHandlers(RemoveJavascript(StripTags(
          RemoveScriptBlocks(text)))))
  IN  IF TextLength(text) > MAX_TEXT_LENGTH
        THEN Raised(Thrown("Error", << "Transcript too long. Maximum ",
                                       "100000", " characters allowed" >>))
      ELSE IF Len(cleaned) = 0
        THEN Raised(Thrown("Error",
                           << "Transcript cannot be empty after sanitization" >>))
      ELSE Returned(cleaned)

\* a caller passes a text to InputSanitizer.sanitizeTranscriptText
SanitizeInit ==
  /\ fnInput \in Texts
  /\ fnOutput = Undefined
  /\ fnName = "none"
  /\ PipelineInit /\ SessionInit

SanitizeTranscriptText ==
  /\ fnName = "none"
  /\ fnName' = "sanitizeTranscriptText"
  /\ fnOutput' = sanitizeTranscriptText(fnInput)
  /\ UNCHANGED << fnInput, pipelineVars, sessionVars >>

\* the caller passes the text it got back to the sanitizer once more
SanitizeAgain ==
  /\ fnName = "sanitizeTranscriptText"
  /\ fnOutput.ok
  /\ fnName' = "sanitizeTranscriptText twice"
  /\ fnInput' = fnOutput.value
  /\ fnOutput' = sanitizeTranscriptText(fnOutput.value)
  /\ UNCHANGED << pipelineVars, sessionVars >>

NextSanitize ==
  \/ SanitizeTranscriptText
  \/ SanitizeAgain

SpecSanitize == SanitizeInit /\ [][NextSanitize]_vars

\* ------------------------------------------------------------------------
\* The HTTP /mcp handlers (src/src/minimal-server.ts, mcp-http-server.ts,
\* debug-server.ts, src/unnamed/part_003)
\* ------------------------------------------------------------------------
\* the correlation ids of the requests
CorrelationIds == {1, 2}

\* the methods of the requests: the three the handlers know and another
McpMethods == {"initialize", "tools/list", "tools/call", "resources/list"}

\* the transcript argument of a tools/call request: missing, an empty string,
\* a string of 900 characters, or a number
TranscriptArguments ==
  { Undefined,
    [type |-> "string", length |-> 0],
    [type |-> "string", length |-> 900],
    [type |-> "number", length |-> 0] }

\* the params of the requests: none, or a tool name with or without arguments
McpParams ==
  {Undefined}
    \cup [name : ToolNames, arguments : {Undefined}]
    \cup [name : ToolNames, arguments : [transcript : TranscriptArguments]]

McpBodies == [id : CorrelationIds, method : McpMethods, params : McpParams]

\* params?.name === 'analyze_goldira_transcript'
NamesAnalysisTool(params) ==
  params # Undefined /\ params.name = "analyze_goldira_transcript"

\* `Unknown tool: ${params?.name}`
UnknownTool(params) ==
  << "Unknown tool: ",
     IF params = Undefined THEN "undefined" ELSE params.name >>

\* the HTTP response: the status and the JSON body sent
Response(status, body) == [status |-> status, body |-> body]

\* the result of initialize and of tools/list, as far as it is modelled
InitializeResult == [protocolVersion |-> "2024-11-05"]

ToolsListResult == [tools |-> << "analyze_goldira_transcript" >>]

\* what the body of the switch of minimal-server.ts (161-267) yields: the
\* result, or the Error thrown
MinimalServerResult(body) ==
  LET params == body.params
      transcript == params.arguments.transcript
  IN  CASE body.method = "initialize" ->
             IF params = Undefined
               THEN Raised(Thrown("Error",
                                  << "Initialize requires parameters object" >>))
             ELSE Returned(InitializeResult)
        [] body.method = "tools/list" -> Returned(ToolsListResult)
        [] body.method = "tools/call" ->
             IF ~NamesAnalysisTool(params)
               THEN Raised(Thrown("Error", UnknownTool(params)))
             ELSE IF params.arguments = Undefined
               THEN Raised(Thrown("TypeError",
                                  << "Cannot destructure property 'transcript'",
                                     " of 'params.arguments' as it is undefined." >>))
             ELSE IF transcript = Undefined \/ (transcript.type = "string"
                                                  /\ transcript.length = 0)
               THEN Raised(Thrown("Error", << "Transcript is required" >>))
             ELSE IF transcript.type # "string"
               THEN Raised(Thrown("TypeError",
                                  << "transcript.slice is not a function" >>))
             ELSE Returned([content |-> "text"])
        [] OTHER -> Raised(Thrown("Error", << "Unknown method: ", body.method >>))

\* app.post('/mcp') of minimal-server.ts (147-297)
MinimalServerPost(body) ==
  LET r == MinimalServerResult(body)
  IN  IF r.ok
        THEN Response(200, [jsonrpc |-> "2.0", id |-> body.id, result |-> r.value])
      ELSE Response(200, [jsonrpc |-> "2.0", id |-> body.id,
                          error |-> [code |-> -32603,
                                     message |-> r.error.message,
                                     data |-> [method |-> body.method]]])

\* app.post('/mcp') of src/unnamed/part_003 (23-97)
Part003Post(body) ==
  LET params == body.params
      r == CASE body.method = "initialize" -> Returned(InitializeResult)
             [] body.method = "tools/list" -> Returned(ToolsListResult)
             [] body.method = "tools/call" ->
                  IF NamesAnalysisTool(params)
                    THEN Returned([content |-> "text"])
                  ELSE Raised(Thrown("Error", UnknownTool(params)))
             [] OTHER ->
                  Raised(Thrown("Error", << "Unknown method: ", body.method >>))
  IN  IF r.ok
        THEN Response(200, [jsonrpc |-> "2.0", id |-> body.id, result |-> r.value])
      ELSE Response(200, [jsonrpc |-> "2.0", id |-> body.id,
                          error |-> [code |-> -32603,
                                     message |-> r.error.message]])

\* the POST branch of the /mcp route of debug-server.ts (88-158)
DebugServerPost(body) ==
  LET params == body.params
  IN  CASE body.method = "initialize" ->
             Response(200, [id |-> body.id, result |-> InitializeResult])
        [] body.method = "tools/list" ->
             Response(200, [id |-> body.id, result |-> ToolsListResult])
        [] body.method = "tools/call" ->
             IF NamesAnalysisTool(params)
               THEN Response(200, [id |-> body.id,
                                   result |-> [content |-> "text"]])
             ELSE Response(200, [id |-> body.id,
                                 error |-> [code |-> -32602,
                                            message |-> UnknownTool(params)]])
        [] OTHER ->
             Response(200, [id |-> body.id,
                            error |-> [code |-> -32601,
                                       message |-> << "Unknown method: ",
                                                      body.method >>]])

\* AnalyzeTranscriptSchema.parse(params.arguments) of mcp-http-server.ts
\* (13-24, 134): the issues zod reports
HttpAnalyzeTranscriptIssues(arguments) ==
  IF arguments = Undefined THEN << "Required" >>
  ELSE LET transcript == arguments.transcript
       IN  If(transcript = Undefined, "transcript: Required")
           \o If(transcript # Undefined /\ transcript.type # "string",
                 "transcript: Expected string, received number")
           \o If(transcript # Undefined /\ transcript.type = "string"
                   /\ transcript.length < MIN_TRANSCRIPT_LENGTH,
                 "transcript: too_small")
           \o If(transcript # Undefined /\ transcript.type = "string"
                   /\ transcript.length > MAX_TRANSCRIPT_LENGTH,
                 "transcript: too_big")

\* app.post('/mcp') of mcp-http-server.ts (64-161)
McpHttpServerPost(body) ==
  LET params == body.params
  IN  CASE body.method = "initialize" -> Response(200, InitializeResult)
        [] body.method = "tools/list" -> Response(200, ToolsListResult)
        [] body.method = "tools/call" ->
             IF ~NamesAnalysisTool(params)
               THEN Response(404, [error |-> UnknownTool(params)])
             ELSE IF HttpAnalyzeTranscriptIssues(params.arguments) # << >>
               THEN Response(500,
                             [error |-> HttpAnalyzeTranscriptIssues(
                                          params.arguments)])
             ELSE Response(200, [content |-> "text"])
        [] OTHER ->
             Response(400, [error |-> << "Unknown method: ", body.method >>])

\* a client posts a request to /mcp
McpInit ==
  /\ fnInput \in McpBodies
  /\ fnOutput = Undefined
  /\ fnName = "none"
  /\ PipelineInit /\ SessionInit

\* the server that runs is minimal-server.ts
MinimalServerMcp ==
  /\ fnName = "none"
  /\ fnName' = "minimal-server"
  /\ fnOutput' = MinimalServerPost(fnInput)
  /\ UNCHANGED << fnInput, pipelineVars, sessionVars >>

\* the server that runs is src/unnamed/part_003
Part003Mcp ==
  /\ fnName = "none"
  /\ fnName' = "part_003"
  /\ fnOutput' = Part003Post(fnInput)
  /\ UNCHANGED << fnInput, pipelineVars, sessionVars >>

\* the server that runs is debug-server.ts
DebugServerMcp ==
  /\ fnName = "none"
  /\ fnName' = "debug-server"
  /\ fnOutput' = DebugServerPost(fnInput)
  /\ UNCHANGED << fnInput, pipelineVars, sessionVars >>

\* the server that runs is mcp-http-server.ts
McpHttpServerMcp ==
  /\ fnName = "none"
  /\ fnName' = "mcp-http-server"
  /\ fnOutput' = McpHttpServerPost(fnInput)
  /\ UNCHANGED << fnInput, pipelineVars, sessionVars >>

NextMcp ==
  \/ MinimalServerMcp
  \/ Part003Mcp
  \/ DebugServerMcp
  \/ McpHttpServerMcp

SpecMcp == McpInit /\ [][NextMcp]_vars

\* ------------------------------------------------------------------------
\* generateSummary called on its own (analysisOrchestrator.ts:152-197)
\* ------------------------------------------------------------------------
\* scores of a stage result: the ends of the range, the thresholds' region,
\* the values of the mock, and a pair of ShortOfHalf
ScoreSamples == {0, 3, 30, 62, 70, 85, 99, 100}

\* RiskLevelEnum (goldira.ts:10)
RiskLevels == {"low", "medium", "high", "critical"}

\* GoldIRAInterestEnum (goldira.ts:7), two of its four values
InterestSamples == {"ready-to-act", "considering"}

\* the analyses map after the six stages, with these scores in it
AnalysesWith(q, c, level) ==
  [p \in PromptIds |->
     CASE p = "conversation" ->
            [conversationScorecard |-> [overallQuality |-> q],
             keyMoments |-> 1, missedOpportunities |-> 1]
       [] p = "psychology" ->
            [personalityType |-> [primary |-> "analytical", confidence |-> c]]
       [] p = "dealRisk" ->
            [dealHealth |-> [overallScore |-> 75, riskLevel |-> level]]
       [] OTHER -> mockAnalysisResponse(p, Undefined, 65)]

\* the context of a run whose caller stated this interest
ContextWith(interest) ==
  NewContext([present |-> {"duration", "familyMembers", "accountTypes"},
              goldIRAInterest |-> interest])

SummaryInit ==
  /\ fnInput \in [quality : ScoreSamples, confidence : ScoreSamples,
                  riskLevel : RiskLevels, interest : InterestSamples]
  /\ fnOutput = Undefined
  /\ fnName = "none"
  /\ PipelineInit /\ SessionInit

\* executeAnalysis calls generateSummary (line 58)
GenerateSummary ==
  /\ fnName = "none"
  /\ fnName' = "generateSummary"
  /\ fnOutput' = generateSummary(
                   AnalysesWith(fnInput.quality, fnInput.confidence,
                                fnInput.riskLevel),
                   ContextWith(fnInput.interest))
  /\ UNCHANGED << fnInput, pipelineVars, sessionVars >>

\* a second run with the same six stage results and some stated interest
GenerateSummaryAgain ==
  /\ fnName = "generateSummary"
  /\ fnName' = "generateSummary again"
  /\ \E interest \in InterestSamples :
       fnOutput' = [first |-> fnOutput,
                    second |-> generateSummary(
                                 AnalysesWith(fnInput.quality,
                                              fnInput.confidence,
                                              fnInput.riskLevel),
                                 ContextWith(interest))]
  /\ UNCHANGED << fnInput, pipelineVars, sessionVars >>

NextSummary ==
  \/ GenerateSummary
  \/ GenerateSummaryAgain

SpecSummary == SummaryInit /\ [][NextSummary]_vars

\* ------------------------------------------------------------------------
\* determineOverallRisk called on its own (analysisOrchestrator.ts:217-226)
\* ------------------------------------------------------------------------
\* objections of an objectionInventory: the one of the mock (severity 60,
\* partially addressed) and severe ones, addressed and not
ObjectionSamples ==
  { [severity |-> 60, addressed |-> "partially"],
    [severity |-> 80, addressed |-> "no"],
    [severity |-> 90, addressed |-> "fully"],
    [severity |-> 90, addressed |-> "no"] }

\* the longest objectionInventory
MaxObjections == 2

ObjectionInventories ==
  UNION { [1..n -> ObjectionSamples] : n \in 0..MaxObjections }

\* the analyses map after the six stages, with this riskLevel and inventory
AnalysesWithRisk(level, inventory) ==
  [AnalysesWith(75, 85, level) EXCEPT
     !["objections"] = [objectionInventory |-> inventory]]

RiskInit ==
  /\ fnInput \in [riskLevel : RiskLevels, inventory : ObjectionInventories]
  /\ fnOutput = Undefined
  /\ fnName = "none"
  /\ PipelineInit /\ SessionInit

\* generateSummary calls determineOverallRisk (line 194)
DetermineOverallRisk ==
  /\ fnName = "none"
  /\ fnName' = "determineOverallRisk"
  /\ fnOutput' = determineOverallRisk(
                   AnalysesWithRisk(fnInput.riskLevel, fnInput.inventory))
  /\ UNCHANGED << fnInput, pipelineVars, sessionVars >>

\* the same analyses with the inventory emptied, for comparison
DetermineRiskWithoutObjections ==
  /\ fnName = "determineOverallRisk"
  /\ fnName' = "determineOverallRisk without objections"
  /\ fnOutput' = [with |-> fnOutput,
                  without |-> determineOverallRisk(
                                AnalysesWithRisk(fnInput.riskLevel, << >>))]
  /\ UNCHANGED << fnInput, pipelineVars, sessionVars >>

NextRisk ==
  \/ DetermineOverallRisk
  \/ DetermineRiskWithoutObjections

SpecRisk == RiskInit /\ [][NextRisk]_vars

\* ------------------------------------------------------------------------
\* executeAnalysis called again on a context it has already worked on
\* ------------------------------------------------------------------------
\* the caller of a settled run passes the same context object to
\* executeAnalysis once more: the new call starts with its own empty analyses
\* map (line 38) and runs to its first await on the context as the earlier
\* call left it (lines 42-46)
ExecuteAnalysisAgain(r) ==
  /\ kind[r] = "orchestrator"
  /\ pc[r] \in {"done", "failed"}
  /\ \E loads \in BOOLEAN :
       \E rnd \in RandomSamples(executionOrder[1].promptId) :
         LET ctx == context[r]
             p == executePromptStep(executionOrder[1], ctx, loads, rnd)
         IN  /\ analyses' = [analyses EXCEPT ![r] = NoAnalyses]
             /\ step' = [step EXCEPT ![r] = 1]
             /\ pending' = [pending EXCEPT ![r] = p]
             /\ invoked' = [invoked EXCEPT
                              ![r] = << Invocation(executionOrder[1], ctx, p) >>]
             /\ pc' = [pc EXCEPT ![r] = "awaiting"]
  /\ summary' = [summary EXCEPT ![r] = Undefined]
  /\ result' = [result EXCEPT ![r] = Undefined]
  /\ thrown' = [thrown EXCEPT ![r] = Undefined]
  /\ UNCHANGED << context, kind, request, response >>
  /\ UNCHANGED sessionVars
  /\ UNCHANGED pureVars

NextReuse ==
  \/ \E r \in Runs : StartRun(r)
  \/ \E r \in Runs : StepFailed(r)
  \/ \E r \in Runs : NextStep(r)
  \/ \E r \in Runs : Finish(r)
  \/ \E r \in Runs : ExecuteAnalysisAgain(r)

SpecReuse == Init /\ [][NextReuse]_vars

\* ------------------------------------------------------------------------
\* The registry with two sessions (validation.ts:347-417)
\* ------------------------------------------------------------------------
\* the identifiers of two sessions
TwoSessions == {1, 2}

\* two callers have each called createSession at time 0
TwoSessionsInit ==
  /\ sessions = createSession(createSession(NoSessions, 1, 0).sessions,
                              2, 0).sessions
  /\ issued = 2
  /\ now = 0
  /\ ticks = 0
  /\ calls = << >>
  /\ PipelineInit /\ PureInit

NextTwoSessions ==
  \/ \E id \in TwoSessions : ValidateSession(id)
  \/ \E id \in TwoSessions : IncrementAnalysisCount(id)
  \/ Tick

SpecTwoSessions == TwoSessionsInit /\ [][NextTwoSessions]_vars

\* ------------------------------------------------------------------------
\* Properties of the pipeline
\* ------------------------------------------------------------------------
\* the order the specification fixes for the six stages
FixedOrder ==
  << "conversation", "psychology", "objections", "dealRisk", "actionPlan",
     "qualification" >>

\* the context field that holds the result of each stage
FieldOfStage ==
  [conversation |-> "conversationInsights", psychology |-> "psychologyProfile",
   objections |-> "objectionAnalysis", dealRisk |-> "riskAssessment",
   actionPlan |-> "actionPlan", qualification |-> "finalQualification"]

\* the context fields of the first k stages of the fixed order
PrefixFields(k) == {FieldOfStage[FixedOrder[j]] : j \in 1..k}

\* the stage identifiers of the executePromptStep calls of run r, in order
InvokedIds(r) == [i \in 1..Len(invoked[r]) |-> invoked[r][i].promptId]

\* the runs that are calls of AnalysisOrchestrator.executeAnalysis
OrchestratorRuns == {r \in Runs : kind[r] = "orchestrator"}

\* the runs that are call-tool requests
CallToolRuns == {r \in Runs : kind[r] \in {"index", "tool"}}

\* C1: whenever executeAnalysis returns a result, the result's executionOrder
\* is exactly conversation, psychology, objections, dealRisk, actionPlan,
\* qualification, and the stages were executed in exactly that sequence.
C1_ExecutionOrderFixed ==
  \A r \in OrchestratorRuns :
    result[r] # Undefined =>
      /\ result[r].executionOrder = FixedOrder
      /\ InvokedIds(r) = FixedOrder

C1_Witness ==
  \E r \in OrchestratorRuns : pc[r] = "done" /\ result[r] # Undefined

\* C2: within a run, the stages whose result is in the context always form a
\* prefix of the fixed order; every stage is started on a context holding
\* exactly the results of the stages before it, and the stage being awaited
\* is the first stage not in that prefix.
C2_SequentialMerge ==
  \A r \in OrchestratorRuns :
    /\ \E k \in 0..Len(FixedOrder) : Defined(context[r]) = PrefixFields(k)
    /\ \A i \in 1..Len(invoked[r]) :
         /\ invoked[r][i].promptId = FixedOrder[i]
         /\ invoked[r][i].received = PrefixFields(i - 1)
    /\ pc[r] = "awaiting" =>
         /\ Defined(context[r]) = PrefixFields(Len(invoked[r]) - 1)
         /\ executionOrder[step[r]].promptId = FixedOrder[Len(invoked[r])]

C2_Witness ==
  \E r \in OrchestratorRuns :
    /\ pc[r] = "awaiting" /\ step[r] = 4 /\ ~invoked[r][4].threw
    /\ Defined(context[r]) = PrefixFields(3)

\* C3: the qualification stage is only ever invoked with the results of all
\* five prior stages at hand, in the orchestrator and in the handler of
\* index.ts.
C3_QualificationSeesAllFive ==
  \A r \in Runs :
    \A i \in 1..Len(invoked[r]) :
      invoked[r][i].promptId = "qualification" =>
        PrefixFields(5) \subseteq invoked[r][i].received

C3_Witness ==
  \E r \in Runs :
    /\ kind[r] = "index"
    /\ \E i \in 1..Len(invoked[r]) :
         invoked[r][i].promptId = "qualification" /\ ~invoked[r][i].threw

\* C4: if a stage of a run throws, no later stage is executed, no summary is
\* computed, and no result (nor a response carrying a summary field) is
\* returned to the caller.
C4_FailureAbortsRun ==
  \A r \in Runs :
    \A i \in 1..Len(invoked[r]) :
      invoked[r][i].threw =>
        /\ i = Len(invoked[r])
        /\ summary[r] = Undefined
        /\ result[r] = Undefined
        /\ pc[r] # "done"
        /\ response[r] # Undefined =>
             /\ response[r].isError
             /\ "summary" \notin DOMAIN response[r].body

C4_Witness ==
  \E r \in OrchestratorRuns :
    /\ pc[r] = "failed" /\ step[r] = 3
    /\ invoked[r][3].threw /\ thrown[r] # Undefined

\* the text of error e mentions stage s, by its identifier or by the name of
\* its prompt file
ErrorNamesStage(e, s) ==
  \E i \in 1..Len(e.message) : e.message[i] \in {s.promptId, s.fileName}

\* C5: when a stage throws, the error the caller receives identifies the
\* stage that failed, for every stage and every underlying error.
C5_ErrorIdentifiesStage ==
  \A r \in OrchestratorRuns :
    pc[r] = "failed" => ErrorNamesStage(thrown[r], executionOrder[step[r]])

\* ------------------------------------------------------------------------
\* Properties of the call-tool handlers
\* ------------------------------------------------------------------------
\* how the message of an error response begins when the request failed
\* schema validation, business-rule validation or the quota check
TerminalErrors ==
  {"Validation failed: ", "Transcript cannot be empty after sanitization",
   "ZodError: ", "Business rule validation failed: ",
   "Session analysis limit exceeded"}

\* the response of run r reports a validation or quota failure
FailedValidationOrQuota(r) ==
  /\ response[r] # Undefined
  /\ response[r].isError
  /\ response[r].body.message[1] \in TerminalErrors

\* C6: a call-tool request that fails schema validation, business-rule
\* validation or the quota check gets its error response without any prompt
\* having been assembled or any stage executed for it.
C6_ValidationBeforeStages ==
  \A r \in CallToolRuns : FailedValidationOrQuota(r) => invoked[r] = << >>

C6_Witness ==
  \E r \in Runs :
    /\ kind[r] = "tool"
    /\ response[r].isError
    /\ response[r].body.message[1] = "Business rule validation failed: "
    /\ invoked[r] = << >>

\* C7: a call-tool invocation for a session already charged 10 times is
\* rejected with the quota error, whatever its transcript.
C7_EleventhCallRejected ==
  [][\A r \in Runs :
       ( /\ kind[r] = "none"
         /\ kind'[r] = "tool"
         /\ request'[r].input.sessionId \in DOMAIN sessions
         /\ sessions[request'[r].input.sessionId].analysisCount >= 10 )
       => /\ response'[r].isError
          /\ response'[r].body.message = << "Session analysis limit exceeded" >>
    ]_vars

\* ------------------------------------------------------------------------
\* Properties of the session registry
\* ------------------------------------------------------------------------
\* the calls of method op among the SessionManager calls of the latest step
CallsOf(op) == {calls[i] : i \in {j \in 1..Len(calls) : calls[j].op = op}}

\* the calls made on a session the registry held
OnRegistered(cs) == {c \in cs : c.id \in DOMAIN c.before}

\* the session of call c had been idle for longer than 30 minutes
IdleTooLong(c) == c.at - c.before[c.id].lastAccess > 30 * 60 * 1000

\* C8: incrementAnalysisCount on a registered session returns false and
\* changes nothing when the counter has reached 10; otherwise it adds exactly
\* 1 to the counter and returns true.
C8_IncrementUpToCap ==
  \A c \in OnRegistered(CallsOf("incrementAnalysisCount")) :
    IF c.before[c.id].analysisCount >= 10
      THEN c.ret = FALSE /\ c.after = c.before
    ELSE /\ c.ret = TRUE
         /\ c.id \in DOMAIN c.after
         /\ c.after[c.id].analysisCount = c.before[c.id].analysisCount + 1

C8_Witness ==
  \E c \in OnRegistered(CallsOf("incrementAnalysisCount")) :
    /\ c.before[c.id].analysisCount = 10
    /\ c.ret = FALSE
    /\ sessions[c.id].analysisCount = 10

\* C9: validateSession returns false for a session that does not exist;
\* returns false and removes the session when it has been idle for more than
\* 30 minutes; otherwise sets its last access to now and returns true, idle
\* time of exactly 30 minutes included.
C9_ValidateSession ==
  \A c \in CallsOf("validateSession") :
    IF c.id \notin DOMAIN c.before
      THEN c.ret = FALSE /\ c.after = c.before
    ELSE IF IdleTooLong(c)
      THEN c.ret = FALSE /\ c.id \notin DOMAIN c.after
    ELSE /\ c.ret = TRUE
         /\ c.id \in DOMAIN c.after
         /\ c.after[c.id].lastAccess = c.at

C9_Witness ==
  \E c \in OnRegistered(CallsOf("validateSession")) :
    /\ c.at - c.before[c.id].lastAccess = 30 * 60 * 1000
    /\ c.ret = TRUE
    /\ sessions[c.id].lastAccess = now

\* C10: validateSession or incrementAnalysisCount on a session idle for
\* longer than the timeout is rejected, and neither increments the session's
\* counter nor renews its last access.
C10_ExpiredIsNonexistent ==
  \A c \in OnRegistered(CallsOf("validateSession")
                          \cup CallsOf("incrementAnalysisCount")) :
    IdleTooLong(c) =>
      /\ c.ret = FALSE
      /\ c.id \in DOMAIN c.after =>
           /\ c.after[c.id].analysisCount = c.before[c.id].analysisCount
           /\ c.after[c.id].lastAccess = c.before[c.id].lastAccess

\* ------------------------------------------------------------------------
\* Properties of the validators
\* ------------------------------------------------------------------------
\* C11: the validator rejects every transcript of 99 characters or less and
\* every transcript of 100001 characters or more, and accepts a transcript
\* exactly when its sanitized text has between 100 and 100000 characters.
C11_LengthBoundOnSanitizedText ==
  fnName = "validateTranscriptRequest" =>
    /\ fnInput.transcript.length <= 99 => ~fnOutput.ok
    /\ fnInput.transcript.length >= 100001 => ~fnOutput.ok
    /\ fnOutput.ok <=> fnInput.transcript.cleanedLength \in 100..100000

\* C12: sanitizing a text the sanitizer returned yields that same text.
C12_SanitizeIdempotent ==
  fnName = "sanitizeTranscriptText twice" =>
    fnOutput.ok /\ fnOutput.value = fnInput

\* the request of tool run r passes the schema and breaks a business rule
BreaksOnlyBusinessRules(r) ==
  LET v == validateTranscriptRequest(
             [transcript |-> request[r].input.transcript,
              metadata |-> request[r].input.metadata, sessionId |-> r])
  IN  v.ok /\ BusinessRuleIssues(v.value) # << >>

\* C13: a structurally valid request that breaks only business rules is not
\* rejected for it: it still enters the pipeline.
C13_BusinessRulesAreWarnings ==
  \A r \in Runs :
    (kind[r] = "tool" /\ BreaksOnlyBusinessRules(r)) =>
      /\ response[r].body.message[1] # "Business rule validation failed: "
      /\ invoked[r] # << >>

\* ------------------------------------------------------------------------
\* Properties of the HTTP /mcp handlers
\* ------------------------------------------------------------------------
McpServers == {"minimal-server", "part_003", "debug-server", "mcp-http-server"}

\* C14: every response to a request that carries a correlation id carries
\* that id, on success and on every error path, in every /mcp handler.
C14_ResponseEchoesId ==
  fnName \in McpServers =>
    /\ "id" \in DOMAIN fnOutput.body
    /\ fnOutput.body.id = fnInput.id

\* the request of the latest /mcp call, by what is wrong with it
UnknownMethodRequest ==
  fnInput.method \notin {"initialize", "tools/list", "tools/call"}

UnknownToolRequest ==
  fnInput.method = "tools/call" /\ ~NamesAnalysisTool(fnInput.params)

InvalidParamsRequest ==
  /\ fnInput.method = "tools/call"
  /\ NamesAnalysisTool(fnInput.params)
  /\ \/ fnInput.params.arguments = Undefined
     \/ fnInput.params.arguments.transcript = Undefined
     \/ fnInput.params.arguments.transcript.type # "string"
     \/ fnInput.params.arguments.transcript.length = 0

\* the response of the latest /mcp call is an error with this code
AnswersWithCode(code) ==
  /\ "error" \in DOMAIN fnOutput.body
  /\ fnOutput.body.error.code = code

\* C15: an unknown method is answered with -32601, an unknown tool name and
\* invalid call parameters with -32602, and only an internal failure with
\* -32603.
C15_ErrorCodesDistinguish ==
  fnName \in {"minimal-server", "part_003", "debug-server"} =>
    /\ UnknownMethodRequest => AnswersWithCode(-32601)
    /\ UnknownToolRequest => AnswersWithCode(-32602)
    /\ (fnName = "minimal-server" /\ InvalidParamsRequest) =>
         AnswersWithCode(-32602)

\* ------------------------------------------------------------------------
\* Properties of the responses of the analysis tool
\* ------------------------------------------------------------------------
ErrorResponseFields ==
  {"error", "message", "sessionId", "timestamp", "processingTime"}

\* C16: every call of execute returns a response and throws nothing; a
\* failed call returns isError with error, message, sessionId, timestamp and
\* processingTime, the sessionId being one that execute created.
C16_ExecuteAlwaysResponds ==
  \A r \in Runs :
    kind[r] = "tool" =>
      /\ thrown[r] = Undefined
      /\ response[r] # Undefined
      /\ response[r].isError \in BOOLEAN
      /\ response[r].isError =>
           /\ DOMAIN response[r].body = ErrorResponseFields
           /\ response[r].body.error = "Analysis failed"
           /\ response[r].body.sessionId \in 1..issued
           /\ response[r].body.timestamp <= now
           /\ response[r].body.processingTime >= 0

C16_Witness ==
  \E r \in Runs :
    /\ kind[r] = "tool"
    /\ response[r].isError
    /\ response[r].body.sessionId \in DOMAIN sessions

\* ------------------------------------------------------------------------
\* Properties of the error messages
\* ------------------------------------------------------------------------
\* the text sub occurs in the text msg
Contains(msg, sub) ==
  \E i \in 0..(Len(msg) - Len(sub)) : SubSeq(msg, i + 1, i + Len(sub)) = sub

\* the handler of minimal-server.ts failed on the latest request with an
\* exception of the runtime, not one of the Errors it throws itself
InternalFailure ==
  /\ fnName = "minimal-server"
  /\ ~MinimalServerResult(fnInput).ok
  /\ MinimalServerResult(fnInput).error.name = "TypeError"

\* C17: on an internal failure the message sent to the caller does not hold
\* the text of the exception that caused it.
C17_NoExceptionTextInResponse ==
  InternalFailure =>
    ~Contains(fnOutput.body.error.message,
              MinimalServerResult(fnInput).error.message)

RiskDerivedScore ==
  CASE fnInput.riskLevel = "low" -> 80
    [] fnInput.riskLevel = "medium" -> 60
    [] fnInput.riskLevel = "high" -> 40
    [] OTHER -> 20

\* ten times the weighted sum 0.3 quality + 0.3 confidence + 0.4 risk score
TenfoldWeightedSum ==
  3 * fnInput.quality + 3 * fnInput.confidence + 4 * RiskDerivedScore

\* C19: the overallQualificationScore is in 0..100 and is the weighted sum
\* 0.3 x quality + 0.3 x confidence + 0.4 x risk-derived score rounded to a
\* nearest integer.
C19_ScoreIsRoundedWeightedSum ==
  fnName = "generateSummary" =>
    /\ fnOutput.overallQualificationScore \in 0..100
    /\ 10 * fnOutput.overallQualificationScore - 5 <= TenfoldWeightedSum
    /\ TenfoldWeightedSum <= 10 * fnOutput.overallQualificationScore + 5

C19_Witness ==
  /\ fnName = "generateSummary"
  /\ TenfoldWeightedSum % 10 \in 6..9
  /\ fnInput.riskLevel = "critical"
  /\ fnOutput.overallQualificationScore > 20

\* C20: investmentReadiness is 'high' exactly when the score is at least 80
\* and the stated interest is ready-to-act; otherwise 'medium' from 60,
\* 'low' from 40 and 'not-ready' below 40.
C20_ReadinessThresholds ==
  fnName = "generateSummary" =>
    LET score == fnOutput.overallQualificationScore
        readiness == fnOutput.investmentReadiness
    IN  /\ readiness = "high"
             <=> (score >= 80 /\ fnInput.interest = "ready-to-act")
        /\ readiness = "medium"
             <=> \/ score >= 80 /\ fnInput.interest # "ready-to-act"
                 \/ score \in 60..79
        /\ readiness = "low" <=> score \in 40..59
        /\ readiness = "not-ready" <=> score < 40

C20_Witness ==
  /\ fnName = "generateSummary"
  /\ fnOutput.overallQualificationScore >= 80
  /\ fnInput.interest # "ready-to-act"
  /\ fnOutput.investmentReadiness = "medium"

\* ------------------------------------------------------------------------
\* Properties of the summary riskLevel
\* ------------------------------------------------------------------------
\* the input of the latest determineOverallRisk call holds an objection that
\* is severe and not resolved
SevereUnresolvedObjection ==
  \E i \in DOMAIN fnInput.inventory :
    /\ fnInput.inventory[i].severity > 80
    /\ fnInput.inventory[i].addressed # "fully"

RECURSIVE Charges(_, _)
Charges(cs, id) ==
  IF cs = << >> THEN 0
  ELSE Charges(Tail(cs), id)
         + (IF /\ Head(cs).op = "incrementAnalysisCount"
               /\ Head(cs).id = id
               /\ Head(cs).ret
              THEN 1 ELSE 0)

\* C22: in every interleaving of registry calls a session's counter grows in
\* each step by exactly the number of incrementAnalysisCount calls on it that
\* returned true in that step, so that no update is lost, and it never
\* exceeds 10.
C22_NoLostUpdate ==
  /\ [](\A id \in DOMAIN sessions : sessions[id].analysisCount <= 10)
  /\ [][\A id \in DOMAIN sessions \cap DOMAIN sessions' :
          sessions'[id].analysisCount
            = sessions[id].analysisCount + Charges(calls', id)]_vars

C22_Witness ==
  \E c \in OnRegistered(CallsOf("validateSession")) :
    /\ c.ret
    /\ c.before[c.id].analysisCount = 10
    /\ c.before[c.id].lastAccess < c.at
    /\ sessions[c.id].analysisCount = 10

\* ------------------------------------------------------------------------
\* Properties of the charge of a tool invocation
\* ------------------------------------------------------------------------
\* the request of run r passes validateTranscriptRequest and
\* validateBusinessRules
Admitted(req, id) ==
  LET v == validateTranscriptRequest(
             [transcript |-> req.input.transcript,
              metadata |-> req.input.metadata, sessionId |-> id])
  IN  v.ok /\ BusinessRuleIssues(v.value) = << >>

\* C23: an admitted invocation of execute charges the session it runs under
\* exactly once, no stage prompt is assembled without the charge, the charge
\* stays when the invocation fails afterwards, and no step ever lowers a
\* registered session's counter.
C23_ChargedOnceAtAdmission ==
  [][/\ \A r \in Runs :
          (kind[r] = "none" /\ kind'[r] = "tool") =>
            LET id == response'[r].body.sessionId
            IN  /\ Admitted(request'[r], id) =>
                     /\ Charges(calls', id) = 1
                     /\ sessions'[id].analysisCount = 1
                /\ ~Admitted(request'[r], id) => Charges(calls', id) = 0
                /\ invoked'[r] # << >> => Charges(calls', id) = 1
     /\ \A id \in DOMAIN sessions \cap DOMAIN sessions' :
          sessions'[id].analysisCount >= sessions[id].analysisCount
    ]_vars

C23_Witness ==
  \E r \in Runs :
    /\ kind[r] = "tool"
    /\ response[r].isError
    /\ Admitted(request[r], response[r].body.sessionId)
    /\ sessions[response[r].body.sessionId].analysisCount = 1

\* ------------------------------------------------------------------------
\* Properties of the pruning of the registry
\* ------------------------------------------------------------------------
\* the registry ss holds a session idle for longer than the timeout at time t
HoldsExpired(ss, t) ==
  \E id \in DOMAIN ss : t - ss[id].lastAccess > 30 * 60 * 1000

\* C24: after any call of createSession, validateSession or
\* incrementAnalysisCount the registry holds no session that has been idle
\* for longer than 30 minutes.
C24_PrunedOnEveryOperation ==
  \A i \in DOMAIN calls : ~HoldsExpired(calls[i].after, calls[i].at)

\* ------------------------------------------------------------------------
\* Properties of the context across calls
\* ------------------------------------------------------------------------
\* C25: a stage result held by a context is never changed afterwards, also
\* when the context is passed to executeAnalysis a second time.
C25_ResultsSetOnce ==
  [][\A r \in Runs :
       (context[r] # Undefined /\ context'[r] # Undefined) =>
         \A f \in ContextFields :
           context[r][f] # Undefined => context'[r][f] = context[r][f]
    ]_vars

\* ------------------------------------------------------------------------
\* Properties of what a stage receives
\* ------------------------------------------------------------------------
\* the context fields each stage is declared to consume
DeclaredInputs ==
  [conversation |-> {},
   psychology |-> {"conversationInsights"},
   objections |-> {"psychologyProfile"},
   dealRisk |-> {"conversationInsights", "psychologyProfile"},
   actionPlan |-> {"conversationInsights", "psychologyProfile",
                   "objectionAnalysis", "riskAssessment"},
   qualification |-> {}]

\* C26: every stage is invoked with the results it is declared to consume:
\* psychology with the conversation result, objections with the psychology
\* result, dealRisk with both, actionPlan with all four prior results.
C26_StageReceivesDeclaredInputs ==
  \A r \in Runs :
    \A i \in 1..Len(invoked[r]) :
      DeclaredInputs[invoked[r][i].promptId] \subseteq invoked[r][i].received

\* ------------------------------------------------------------------------
\* Properties of a failed run's context
\* ------------------------------------------------------------------------
\* C27: the step in which a run fails leaves the run's context as it was,
\* holding the results of exactly the stages that completed before the
\* failing one, and the caller gets an error and no result.
C27_FailureKeepsEarlierResults ==
  [][/\ \A r \in OrchestratorRuns :
       (pc[r] = "awaiting" /\ pc'[r] = "failed") =>
         /\ context'[r] = context[r]
         /\ Defined(context'[r]) = PrefixFields(step[r] - 1)
         /\ result'[r] = Undefined
         /\ summary'[r] = Undefined
         /\ thrown'[r] # Undefined
     /\ \A r \in OrchestratorRuns :
          (pc[r] = "failed" /\ pc'[r] = "failed") => context'[r] = context[r]
    ]_vars

C27_Witness ==
  \E r \in OrchestratorRuns :
    /\ pc[r] = "failed" /\ step[r] = 4
    /\ Defined(context[r]) = PrefixFields(3)
    /\ context[r].riskAssessment = Undefined
    /\ result[r] = Undefined /\ thrown[r] # Undefined

\* ------------------------------------------------------------------------
\* Properties of the legacy check of the tool
\* ------------------------------------------------------------------------
\* C28: a call of execute whose input passes validateTranscriptRequest and
\* validateBusinessRules is not rejected by validateGoldIRAInput.
C28_LegacyCheckAcceptsValidated ==
  \A r \in Runs :
    ( /\ kind[r] = "tool"
      /\ Admitted(request[r], response[r].body.sessionId)
      /\ response[r].isError )
    => response[r].body.message[1] # "Input validation failed: "

\* ------------------------------------------------------------------------
\* Properties of the analysis counter
\* ------------------------------------------------------------------------
\* C29: every registered session's analysisCount is between 0 and 10, and
\* while a session stays registered its analysisCount never decreases.
C29_CounterBoundedMonotone ==
  /\ [](\A id \in DOMAIN sessions : sessions[id].analysisCount \in 0..10)
  /\ [][\A id \in DOMAIN sessions \cap DOMAIN sessions' :
          sessions'[id].analysisCount >= sessions[id].analysisCount]_vars

C29_Witness ==
  \E id \in DOMAIN sessions :
    /\ sessions[id].analysisCount = 10
    /\ sessions[id].lastAccess > sessions[id].created
    /\ \E c \in CallsOf("incrementAnalysisCount") : c.id = id /\ ~c.ret

\* ------------------------------------------------------------------------
\* Properties of what a registry call leaves alone
\* ------------------------------------------------------------------------
\* the sessions of call c other than the one it was made on are the same
\* before and after it
OthersUntouched(c) ==
  /\ DOMAIN c.after \ {c.id} = DOMAIN c.before \ {c.id}
  /\ \A k \in DOMAIN c.before \ {c.id} : c.after[k] = c.before[k]

\* C30: validateSession changes no session's analysisCount;
\* incrementAnalysisCount changes no session's lastAccess and removes no
\* session; a call of either on one session leaves every other session's
\* record as it was.
C30_CallsChangeOnlyTheirField ==
  /\ \A c \in CallsOf("validateSession") :
       /\ OthersUntouched(c)
       /\ \A k \in DOMAIN c.before \cap DOMAIN c.after :
            c.after[k].analysisCount = c.before[k].analysisCount
  /\ \A c \in CallsOf("incrementAnalysisCount") :
       /\ OthersUntouched(c)
       /\ DOMAIN c.after = DOMAIN c.before
       /\ \A k \in DOMAIN c.before :
            c.after[k].lastAccess = c.before[k].lastAccess

C30_Witness ==
  \E c \in CallsOf("validateSession") :
    /\ c.ret
    /\ c.before[c.id].lastAccess < c.at
    /\ c.before[c.id].analysisCount > 0
    /\ \E k \in DOMAIN c.before \ {c.id} :
         /\ c.at - c.before[k].lastAccess > 30 * 60 * 1000
         /\ k \in DOMAIN sessions

====
